---- MODULE Spec2Model ----
(***************************************************************************)
(* Model of the audio ingestion pipeline of hack1412:                      *)
(*   - intent_extraction.py      AudioProcessor (async variant)            *)
(*   - files_processer.py        main, the live polling loop               *)
(*   - intent_extraction_cont.py AudioProcessor.monitor_folder             *)
(* Model responses are sequences of lexical tokens; json.loads is a        *)
(* recursive-descent parser over them and the regular expression \{.*\}    *)
(* is the span from the first opening brace to the last closing brace.     *)
(***************************************************************************)
EXTENDS Integers, Sequences, FiniteSets, TLC

(***************************************************************************)
(* Tokens of a model response.                                             *)
(***************************************************************************)
P(c) == [k |-> "p", v |-> c]
S(x) == [k |-> "str", v |-> x]
N(x) == [k |-> "num", v |-> x]
W(x) == [k |-> "word", v |-> x]

LB == P("{")
RB == P("}")
LS == P("[")
RS == P("]")
COLON == P(":")
COMMA == P(",")

(***************************************************************************)
(* Python values produced by json.loads.                                   *)
(***************************************************************************)
JStr(x) == [t |-> "str", s |-> x, e |-> <<>>]
JNum(x) == [t |-> "num", s |-> x, e |-> <<>>]
JArr(es) == [t |-> "list", s |-> "", e |-> es]
JObj(ms) == [t |-> "dict", s |-> "", e |-> ms]
None == [t |-> "none", s |-> "", e |-> <<>>]

Member(key, val) == [k |-> key, v |-> val]

\* dict[key] = val: a repeated key keeps its position and takes the new value
DictPut(ms, key, val) ==
    IF \E i \in 1..Len(ms) : ms[i].k = key
    THEN [i \in 1..Len(ms) |-> IF ms[i].k = key THEN Member(key, val) ELSE ms[i]]
    ELSE Append(ms, Member(key, val))

HasKey(d, key) == d.t = "dict" /\ \E i \in 1..Len(d.e) : d.e[i].k = key

\* dict.get(key, default)
DictGet(d, key, default) ==
    IF HasKey(d, key)
    THEN (CHOOSE m \in {d.e[i] : i \in 1..Len(d.e)} : m.k = key).v
    ELSE default

(***************************************************************************)
(* json.loads: value := string | number | array | object; the whole text   *)
(* must be exactly one value, anything else raises JSONDecodeError.        *)
(***************************************************************************)
Fail == [ok |-> FALSE, v |-> None, nxt |-> 0]
Ok(val, n) == [ok |-> TRUE, v |-> val, nxt |-> n]

RECURSIVE ParseValue(_, _)
RECURSIVE ParseElems(_, _, _)
RECURSIVE ParseMembers(_, _, _)

\* elements of an array after "[" or ","; i is the position of the next element
ParseElems(s, i, acc) ==
    LET r == ParseValue(s, i) IN
    IF ~r.ok \/ r.nxt > Len(s) THEN Fail
    ELSE IF s[r.nxt] = RS THEN Ok(JArr(Append(acc, r.v)), r.nxt + 1)
    ELSE IF s[r.nxt] = COMMA THEN ParseElems(s, r.nxt + 1, Append(acc, r.v))
    ELSE Fail

\* members of an object after "{" or ","; i is the position of the next key
ParseMembers(s, i, acc) ==
    IF i + 1 > Len(s) \/ s[i].k # "str" \/ s[i + 1] # COLON THEN Fail
    ELSE LET r == ParseValue(s, i + 2) IN
         IF ~r.ok \/ r.nxt > Len(s) THEN Fail
         ELSE IF s[r.nxt] = RB THEN Ok(JObj(DictPut(acc, s[i].v, r.v)), r.nxt + 1)
         ELSE IF s[r.nxt] = COMMA
              THEN ParseMembers(s, r.nxt + 1, DictPut(acc, s[i].v, r.v))
         ELSE Fail

ParseValue(s, i) ==
    IF i > Len(s) THEN Fail
    ELSE IF s[i].k = "str" THEN Ok(JStr(s[i].v), i + 1)
    ELSE IF s[i].k = "num" THEN Ok(JNum(s[i].v), i + 1)
    ELSE IF s[i] = LS
         THEN IF i + 1 <= Len(s) /\ s[i + 1] = RS THEN Ok(JArr(<<>>), i + 2)
              ELSE ParseElems(s, i + 1, <<>>)
    ELSE IF s[i] = LB
         THEN IF i + 1 <= Len(s) /\ s[i + 1] = RB THEN Ok(JObj(<<>>), i + 2)
              ELSE ParseMembers(s, i + 1, <<>>)
    ELSE Fail

json_loads(s) ==
    LET r == ParseValue(s, 1) IN
    IF r.ok /\ r.nxt = Len(s) + 1 THEN r ELSE Fail

(***************************************************************************)
(* re.search(r'\{.*\}', raw_content, re.DOTALL): leftmost "{", then the    *)
(* greedy .* runs to the last "}" behind it.                               *)
(***************************************************************************)
Opens(s) == {i \in 1..Len(s) : s[i] = LB}
Closes(s) == {i \in 1..Len(s) : s[i] = RB}
Min(X) == CHOOSE x \in X : \A y \in X : x <= y
Max(X) == CHOOSE x \in X : \A y \in X : x >= y

re_search_matches(s) ==
    Opens(s) # {} /\ \E j \in Closes(s) : j > Min(Opens(s))

\* the non-greedy \{.*?\}
re_search_group_nongreedy(s) ==
    SubSeq(s, Min(Opens(s)), Min({j \in Closes(s) : j > Min(Opens(s))}))

re_search_group(s) ==
    SubSeq(s, Min(Opens(s)), Max(Closes(s)))

\* raw_content after "if match: raw_content = match.group(0)"
CleanedContent(s) == IF re_search_matches(s) THEN re_search_group(s) ELSE s

(***************************************************************************)
(* Model responses.  An outcome of ollama.chat is either an exception or   *)
(* the text of response['message']['content'].                             *)
(***************************************************************************)
Raises == [raises |-> TRUE, content |-> <<>>]
Says(s) == [raises |-> FALSE, content |-> s]

Obj(intentTokens, entityTokens) ==
    <<LB, S("intent"), COLON>> \o intentTokens \o
    <<COMMA, S("entities"), COLON, LS>> \o entityTokens \o <<RS, RB>>

Entity(text, label) ==
    <<LB, S("text"), COLON, S(text), COMMA, S("label"), COLON, S(label), RB>>

ObjSupport == Obj(<<S("REQUEST_SUPPORT")>>, <<>>)
ObjNested == Obj(<<S("GENERAL_INQUIRY")>>, Entity("pump", "ASSET"))
\* the label the prompt offers to the model (intent_extraction.py line 157)
ObjPromptLabel == Obj(<<S("SCHEDULE_MAINTAINCE")>>, <<>>)
ObjFreeIntent == Obj(<<S("COMPLAINT")>>, <<>>)
ObjNumIntent == Obj(<<N("7")>>, <<>>)
ObjListIntent == Obj(<<LS, RS>>, <<>>)
ObjNoIntent == <<LB, S("entities"), COLON, LS, RS, RB>>
TextArray == <<LS, RS>>
TextNumber == <<N("42")>>
TextProse == <<W("Sorry"), W("no")>>
TextOpenOnly == <<W("see"), LB, S("intent")>>

Cores == {ObjSupport, ObjNested}
NoisePre == {<<>>, <<W("Sure")>>, <<LB, W("note"), RB>>, <<LS>>}
NoisePost == {<<>>, <<W("thanks")>>, <<W("end"), RB>>, <<RS>>}

Wrap(pre, core, post) == pre \o core \o post

WrappedTexts == {Wrap(pre, core, post) : pre \in NoisePre, core \in Cores, post \in NoisePost}

OtherTexts ==
    {ObjPromptLabel, ObjFreeIntent, ObjNumIntent, ObjListIntent, ObjNoIntent,
     TextArray, TextNumber, TextProse, TextOpenOnly}

\* every outcome the extractor is exercised with on its own
Outcomes == {Raises} \cup {Says(s) : s \in WrappedTexts \cup OtherTexts}

\* the outcomes used when the extractor runs inside a polling loop
PipelineOutcomes ==
    {Raises, Says(ObjSupport), Says(ObjPromptLabel), Says(TextArray), Says(TextProse)}

(***************************************************************************)
(* extract_intent_and_entities of intent_extraction.py, lines 177-236.     *)
(***************************************************************************)
\* one attempt more than the loop of line 183 makes
max_attempts_more == 3 + 1

max_attempts == 3

FallbackMutOther == JObj(<<Member("intent", JStr("OTHER")), Member("entities", JArr(<<>>))>>)

\* the default returned at lines 226-229 and 233-236
Fallback == JObj(<<Member("intent", JStr("UNKNOWN")), Member("entities", JArr(<<>>))>>)

VARIABLES
    epc,        \* position inside extract_intent_and_entities
    attempt,    \* the loop variable of "for attempt in range(max_attempts)"
    raw,        \* raw_content
    calls,      \* outcomes of the ollama.chat calls of this invocation
    result,     \* the value returned to the caller
    eraised     \* TRUE when an exception left extract_intent_and_entities

evars == <<epc, attempt, raw, calls, result, eraised>>

ExtInit ==
    /\ epc = "idle"
    /\ attempt = 0
    /\ raw = <<>>
    /\ calls = <<>>
    /\ result = None
    /\ eraised = FALSE

\* entry: the caller invokes the method, the for loop starts at attempt 0
ExtCall ==
    /\ epc = "idle"
    /\ epc' = "SENT"
    /\ attempt' = 0
    /\ raw' = <<>>
    /\ calls' = <<>>
    /\ result' = None
    /\ eraised' = FALSE

\* "except X" catches X and its subclasses; every class raised here derives from Exception
Catches(handler, exc) == handler = "Exception" \/ handler = exc

json_err_handler_other == "KeyError"
json_err_handler == "JSONDecodeError"       \* line 203
clean_handler == "Exception"                \* line 219
attempt_err_handler_narrow == "JSONDecodeError"
attempt_err_handler == "Exception"          \* line 222
outer_handler == "Exception"                \* line 231

\* where control goes when exc is raised inside the try blocks named by handlers,
\* innermost first; targets[i] is the position after handler i has run
Unwind(exc, handlers, targets) ==
    IF \E i \in 1..Len(handlers) : Catches(handlers[i], exc)
    THEN targets[Min({i \in 1..Len(handlers) : Catches(handlers[i], exc)})]
    ELSE "raised"

\* the effect of arriving at position target after an exception
Land(target) ==
    /\ epc' = (IF target = "FALLBACK" THEN "returned" ELSE target)
    /\ result' = (IF target = "FALLBACK" THEN Fallback ELSE result)
    /\ eraised' = (target = "raised")

\* lines 185-196: ollama.chat; an exception lands in "except Exception as attempt_err"
ExtChat(O) ==
    /\ epc = "SENT"
    /\ \E o \in O :
        /\ calls' = Append(calls, o)
        /\ IF o.raises
           THEN /\ Land(Unwind("ConnectionError",
                               <<attempt_err_handler, outer_handler>>,
                               <<"RETRY", "FALLBACK">>))
                /\ raw' = raw
           ELSE epc' = "PARSE_DIRECT" /\ raw' = o.content /\ UNCHANGED <<result, eraised>>
    /\ UNCHANGED attempt

\* lines 200-204: json.loads(raw_content), returned as it is
ExtParseDirect ==
    /\ epc = "PARSE_DIRECT"
    /\ IF json_loads(raw).ok
       THEN epc' = "returned" /\ result' = json_loads(raw).v /\ eraised' = eraised
       ELSE Land(Unwind("JSONDecodeError",
                        <<json_err_handler, attempt_err_handler, outer_handler>>,
                        <<"PARSE_REPAIRED", "RETRY", "FALLBACK">>))
    /\ UNCHANGED <<attempt, raw, calls>>

\* a clean-up that goes back to parsing the same text instead of giving the attempt up
ExtParseRepairedAgain ==
    /\ epc = "PARSE_REPAIRED"
    /\ raw' = CleanedContent(raw)
    /\ IF json_loads(raw').ok
       THEN epc' = "returned" /\ result' = json_loads(raw').v
       ELSE epc' = "PARSE_DIRECT" /\ result' = result
    /\ UNCHANGED <<attempt, calls, eraised>>

\* lines 207-220: regex clean-up and the second json.loads
ExtParseRepaired ==
    /\ epc = "PARSE_REPAIRED"
    /\ raw' = CleanedContent(raw)
    /\ IF json_loads(raw').ok
       THEN epc' = "returned" /\ result' = json_loads(raw').v /\ eraised' = eraised
       ELSE Land(Unwind("JSONDecodeError",
                        <<clean_handler, attempt_err_handler, outer_handler>>,
                        <<"RETRY", "RETRY", "FALLBACK">>))
    /\ UNCHANGED <<attempt, calls>>

\* the for loop advances, or is exhausted and lines 226-229 return the default
ExtRetry ==
    /\ epc = "RETRY"
    /\ IF attempt + 1 < max_attempts
       THEN epc' = "SENT" /\ attempt' = attempt + 1 /\ result' = result
       ELSE epc' = "returned" /\ attempt' = attempt /\ result' = Fallback
    /\ UNCHANGED <<raw, calls, eraised>>

ExtStep(O) == ExtChat(O) \/ ExtParseDirect \/ ExtParseRepaired \/ ExtRetry

(***************************************************************************)
(* extract_intent_and_entities of intent_extraction_cont.py, lines         *)
(* 123-149: one model call, no loop.                                       *)
(***************************************************************************)
ExtractCont(o) ==
    IF o.raises THEN Fallback                                   \* line 147-149
    ELSE IF json_loads(o.content).ok THEN json_loads(o.content).v
    ELSE IF re_search_matches(o.content)
         THEN IF json_loads(re_search_group(o.content)).ok
              THEN json_loads(re_search_group(o.content)).v
              ELSE Fallback                                     \* line 142 raises into 147
    ELSE Fallback                                               \* line 145

(***************************************************************************)
(* Files, folders and the SQLite tables.                                   *)
(***************************************************************************)
Files == {"a.wav", "b.MP3", "notes.txt"}

\* the file two overlapping monitor processes compete for
RaceFiles == {"a.wav"}

\* the files dropped into the folder of the live path, which filters nothing
LiveFiles == {"a.wav", "notes.txt"}

\* filename.lower().endswith(('.wav', '.mp3', '.m4a', '.flac'))
HasAudioExtension(f) == f \in {"a.wav", "b.MP3"}

Workers == {1, 2}

db_path == "transcriptions_async.db"            \* files_processer.py line 14
database_path == "transcriptions.db"            \* intent_extraction.py line 93
cont_database_path == "transcriptions_cont.db"  \* intent_extraction_cont.py line 23
DbPaths == {db_path, database_path, cont_database_path}

folder_path == "data"                           \* files_processer.py line 120
audio_folder == "data2/unprocessed"             \* intent_extraction_cont.py line 236

path_join(dir, name) == <<dir, name>>
\* a path whose last component is the dirname: what basename must not return
basename_dirname(path) == path[1]

basename(path) == path[Len(path)]
NoPath == <<>>

MaxRows == 2

VARIABLES
    folder,     \* names of the regular files in the watched folder
    processed,  \* names of the files in the processed folder
    db,         \* committed rows of the transcriptions table of each database file
    lpc,        \* position of files_processer.main
    listing,    \* what is left of os.listdir in files_processer.main
    cur,        \* file_path in files_processer.main
    nlp,        \* nlp_result in AudioProcessor.process_audio (async)
    cpc,        \* position of each monitor_folder process
    clisting,   \* what is left of os.listdir in each monitor_folder
    ccur,       \* filepath in each monitor_folder
    cnlp,       \* nlp_result in each process_audio
    pending,    \* rows inserted on each process's connection and not committed
    crashedAt,  \* where each monitor_folder process was when it was last killed
    transFailed, \* per process: files whose latest transcribe_audio raised
    storeFailed  \* per process: files whose latest INSERT or commit raised

lvars == <<lpc, listing, cur, nlp>>
cvars == <<cpc, clisting, ccur, cnlp, pending, crashedAt, transFailed, storeFailed>>
svars == <<folder, processed, db>>
vars == <<evars, svars, lvars, cvars>>

AllRows == UNION {db[d] : d \in DbPaths} \cup UNION {pending[p] : p \in Workers}

\* str(uuid.uuid4()): an identifier no row has
NewId == IF AllRows = {} THEN 1 ELSE Max({r.id : r \in AllRows}) + 1

\* nlp_result.get('intent', 'UNKNOWN') as bound to the INSERT
StoredIntent(n) == DictGet(n, "intent", JStr("UNKNOWN"))

\* sqlite3 binds str, int, float and None; a list or dict raises InterfaceError
Bindable(v) == v.t \in {"str", "num", "none"}

(***************************************************************************)
(* The text of the entities column.  A text is a sequence of units: a unit *)
(* is a quote character, a backslash, a punctuation mark as Python prints  *)
(* it, or a run of characters holding none of these.                       *)
(***************************************************************************)
SQ == "'"
DQ == "\""
BS == "\\"

\* the characters of a Python string, as units
Chars(s) ==
    CASE s = "O'Brien" -> <<"O", SQ, "Brien">>
      [] s = "6\" pipe" -> <<"6", DQ, " pipe">>
      [] s = "it's 6\"" -> <<"it", SQ, "s 6", DQ>>
      [] s = "C:\\tmp" -> <<"C:", BS, "tmp">>
      [] s = "" -> <<>>
      [] OTHER -> <<s>>

RECURSIVE Escaped(_, _)
\* a backslash in front of every backslash and every quote character q
Escaped(c, q) ==
    IF c = <<>> THEN <<>>
    ELSE (IF Head(c) \in {q, BS} THEN <<BS, Head(c)>> ELSE <<Head(c)>>) \o Escaped(Tail(c), q)

\* repr of a str: double quotes when the string holds ' and no ", single quotes otherwise
py_repr_str(s) ==
    LET c == Chars(s)
        has(q) == \E i \in 1..Len(c) : c[i] = q
        q == IF has(SQ) /\ ~has(DQ) THEN DQ ELSE SQ
    IN <<q>> \o Escaped(c, q) \o <<q>>

RECURSIVE py_repr(_)
RECURSIVE py_repr_items(_, _)
\* the items of a list or dict display, separated by ", "
py_repr_items(es, isDict) ==
    IF es = <<>> THEN <<>>
    ELSE (IF isDict
          THEN py_repr_str(Head(es).k) \o <<": ">> \o py_repr(Head(es).v)
          ELSE py_repr(Head(es)))
         \o (IF Len(es) > 1 THEN <<", ">> ELSE <<>>)
         \o py_repr_items(Tail(es), isDict)

\* str(value) of a value that json.loads produced
py_repr(v) ==
    IF v.t = "str" THEN py_repr_str(v.s)
    ELSE IF v.t = "num" THEN <<v.s>>
    ELSE IF v.t = "list" THEN <<"[">> \o py_repr_items(v.e, FALSE) \o <<"]">>
    ELSE IF v.t = "dict" THEN <<"{">> \o py_repr_items(v.e, TRUE) \o <<"}">>
    ELSE <<"None">>

\* a replace that leaves the text as it is
str_replace_nothing(u, old, new) == u

\* str.replace(old, new) for one-character old and new
str_replace(u, old, new) == [i \in 1..Len(u) |-> IF u[i] = old THEN new ELSE u[i]]

\* str(nlp_result.get('entities', [])).replace("'", '"')
EntitiesColumn(n) == str_replace(py_repr(DictGet(n, "entities", JArr(<<>>))), SQ, DQ)

NewRow(filename, n) ==
    [id |-> NewId,
     original_filename |-> filename,
     intent |-> StoredIntent(n).s,
     entities |-> EntitiesColumn(n),
     status |-> "unresolved",
     resolution_notes |-> ""]

RowsFor(rows, f) == {r \in rows : r.original_filename = f}

\* INSERT OR REPLACE keyed by the filename
InsertOrReplace(rows, row) ==
    {r \in rows : r.original_filename # row.original_filename} \cup {row}

\* INSERT INTO transcriptions (...) VALUES (...): one more row, the others untouched
InsertRow(rows, row) == rows \cup {row}

\* os.path.exists / os.path.isfile of a path inside the watched folder
os_path_exists(path) == Len(path) = 2 /\ path[2] \in folder

RECURSIVE Perms(_)
Perms(X) ==
    IF X = {} THEN {<<>>}
    ELSE UNION {{<<x>> \o q : q \in Perms(X \ {x})} : x \in X}

PipeInit ==
    /\ folder = {}
    /\ processed = {}
    /\ db = [d \in DbPaths |-> {}]
    /\ lpc = "listdir"
    /\ listing = <<>>
    /\ cur = NoPath
    /\ nlp = None
    /\ cpc = [p \in Workers |-> IF p = 1 THEN "listdir" ELSE "down"]
    /\ clisting = [p \in Workers |-> <<>>]
    /\ ccur = [p \in Workers |-> NoPath]
    /\ cnlp = [p \in Workers |-> None]
    /\ pending = [p \in Workers |-> {}]
    /\ crashedAt = [p \in Workers |-> "none"]
    /\ transFailed = [p \in Workers |-> {}]
    /\ storeFailed = [p \in Workers |-> {}]

Init == ExtInit /\ PipeInit

(***************************************************************************)
(* The environment: files are dropped into and removed from the folder.    *)
(***************************************************************************)
FileArrives(F) ==
    /\ \E f \in F \ folder : folder' = folder \cup {f}
    /\ UNCHANGED <<processed, db>>

FileVanishes ==
    /\ \E f \in folder : folder' = folder \ {f}
    /\ UNCHANGED <<processed, db>>

(***************************************************************************)
(* The extractor on its own: one invocation, any model outcomes.           *)
(***************************************************************************)
AloneCall == ExtCall /\ UNCHANGED <<svars, lvars, cvars>>
AloneChat == ExtChat(Outcomes) /\ UNCHANGED <<svars, lvars, cvars>>
AloneParseDirect == ExtParseDirect /\ UNCHANGED <<svars, lvars, cvars>>
AloneParseRepaired == ExtParseRepaired /\ UNCHANGED <<svars, lvars, cvars>>
AloneRetry == ExtRetry /\ UNCHANGED <<svars, lvars, cvars>>

NextExtract ==
    AloneCall \/ AloneChat \/ AloneParseDirect \/ AloneParseRepaired \/ AloneRetry

SpecExtract == Init /\ [][NextExtract]_vars

\* an attempt that can produce no value: the call raised, or neither parse succeeds
AttemptFails(o) ==
    \/ o.raises
    \/ /\ ~json_loads(o.content).ok
       /\ ~json_loads(CleanedContent(o.content)).ok

Finished == epc \in {"returned", "raised"}

\* C2: when all three attempts raise or return text that parses neither
\* directly nor after brace repair, the call returns exactly
\* {intent: 'UNKNOWN', entities: []} and no exception reaches the caller.
C2_FallbackAfterThreeFailures ==
    /\ ~eraised
    /\ epc # "raised"
    /\ (Finished /\ Len(calls) = 3 /\ \A k \in 1..Len(calls) : AttemptFails(calls[k]))
        => /\ epc = "returned"
           /\ result = JObj(<<Member("intent", JStr("UNKNOWN")),
                              Member("entities", JArr(<<>>))>>)

C2_Witness ==
    /\ epc = "returned"
    /\ Len(calls) = 3
    /\ calls[1].raises
    /\ calls[2] = Says(TextProse)
    /\ calls[3] = Says(Wrap(<<LB, W("note"), RB>>, ObjSupport, <<>>))
    /\ result.t = "dict"

BraceFree(s) == \A i \in 1..Len(s) : s[i] # LB /\ s[i] # RB

\* C3 as stated: a response <noise> object <noise>, the noise being any text,
\* ends the call with the embedded object as the returned value.
C3_RepairAnyNoise ==
    epc = "returned" =>
        \A k \in 1..Len(calls) :
            \A pre \in NoisePre, core \in Cores, post \in NoisePost :
                calls[k] = Says(Wrap(pre, core, post))
                    => k = Len(calls) /\ result = json_loads(core).v

\* C3 amended: the same for noise without '{' and '}' where the response as a
\* whole is not itself a JSON document other than the object.
C3_RepairBraceFreeNoise ==
    epc = "returned" =>
        \A k \in 1..Len(calls) :
            \A pre \in NoisePre, core \in Cores, post \in NoisePost :
                (/\ calls[k] = Says(Wrap(pre, core, post))
                 /\ BraceFree(pre) /\ BraceFree(post)
                 /\ (json_loads(Wrap(pre, core, post)).ok
                        => json_loads(Wrap(pre, core, post)).v = json_loads(core).v))
                    => k = Len(calls) /\ result = json_loads(core).v

C3_Witness ==
    /\ epc = "returned"
    /\ Len(calls) = 2
    /\ calls[1].raises
    /\ calls[2] = Says(Wrap(<<W("Sure")>>, ObjNested, <<W("thanks")>>))
    /\ result = JObj(<<Member("intent", JStr("GENERAL_INQUIRY")),
                       Member("entities", JArr(<<JObj(<<Member("text", JStr("pump")),
                                                        Member("label", JStr("ASSET"))>>)>>))>>)

\* the schema of section 4.4: an object with a string intent and a sequence of entities
ConformsToSchema(v) ==
    /\ v.t = "dict"
    /\ HasKey(v, "intent")
    /\ DictGet(v, "intent", None).t = "str"
    /\ DictGet(v, "entities", JArr(<<>>)).t = "list"

\* C4: the value returned is always an object with a string 'intent' and a
\* sequence 'entities'; a parsed response of another shape is never returned.
C4_ReturnedValueConforms ==
    epc = "returned" => ConformsToSchema(result)

(***************************************************************************)
(* The live path: files_processer.main driving the async AudioProcessor    *)
(* of intent_extraction.py.                                                *)
(***************************************************************************)
\* files_processer.py lines 44-46, on the cursor of db_path
filename_exists_in_db(filename) == RowsFor(db[db_path], filename) # {}

\* an exception that leaves main ends the process (asyncio.run re-raises it)
LiveRaise ==
    /\ lpc' = "raised"
    /\ listing' = <<>>
    /\ cur' = NoPath
    /\ nlp' = None

\* a listing taken whenever the poll interval has passed, whatever main is doing
LiveListDirOnTimer ==
    /\ lpc # "raised"
    /\ listing' \in Perms(folder)
    /\ lpc' = "loop"
    /\ UNCHANGED <<cur, nlp, svars, evars, cvars>>

\* line 109: os.listdir(folder_path), in whatever order the system gives
LiveListDir ==
    /\ lpc = "listdir"
    /\ listing' \in Perms(folder)
    /\ lpc' = "loop"
    /\ UNCHANGED <<cur, nlp, svars, evars, cvars>>

\* a loop that takes the filenames of the listing from its end
LiveNextFileFromEnd ==
    /\ lpc = "loop"
    /\ listing # <<>>
    /\ listing' = SubSeq(listing, 1, Len(listing) - 1)
    /\ cur' = path_join(folder_path, listing[Len(listing)])
    /\ lpc' = IF listing[Len(listing)] \in folder /\ ~filename_exists_in_db(listing[Len(listing)])
              THEN "transcribe"
              ELSE "loop"
    /\ UNCHANGED <<nlp, svars, evars, cvars>>

\* lines 109-116: the next filename, os.path.isfile and the existence check
LiveNextFile ==
    /\ lpc = "loop"
    /\ listing # <<>>
    /\ listing' = Tail(listing)
    /\ cur' = path_join(folder_path, Head(listing))
    /\ lpc' = IF Head(listing) \in folder /\ ~filename_exists_in_db(Head(listing))
              THEN "transcribe"
              ELSE "loop"
    /\ UNCHANGED <<nlp, svars, evars, cvars>>

\* intent_extraction.py lines 128-144 called from line 278
LiveTranscribe ==
    /\ lpc = "transcribe"
    /\ \E asrOk \in BOOLEAN :
        IF os_path_exists(cur) /\ asrOk
        THEN lpc' = "extract" /\ UNCHANGED <<listing, cur, nlp>>
        ELSE LiveRaise
    /\ UNCHANGED <<svars, evars, cvars>>

\* line 281: the call of extract_intent_and_entities
LiveExtractCall ==
    /\ lpc = "extract"
    /\ ExtCall
    /\ UNCHANGED <<lvars, svars, cvars>>

LiveExtractChat ==
    /\ lpc = "extract"
    /\ ExtChat(PipelineOutcomes)
    /\ UNCHANGED <<lvars, svars, cvars>>

LiveExtractParse ==
    /\ lpc = "extract"
    /\ ExtParseDirect \/ ExtParseRepaired \/ ExtRetry
    /\ UNCHANGED <<lvars, svars, cvars>>

\* line 281: nlp_result receives the returned value
LiveExtractReturn ==
    /\ lpc = "extract"
    /\ Finished
    /\ IF eraised
       THEN LiveRaise
       ELSE lpc' = "store" /\ nlp' = result /\ UNCHANGED <<listing, cur>>
    /\ epc' = "idle"
    /\ attempt' = 0
    /\ raw' = <<>>
    /\ calls' = <<>>
    /\ result' = None
    /\ eraised' = FALSE
    /\ UNCHANGED <<svars, cvars>>

\* intent_extraction.py lines 240-271 called from lines 284-288: a connection
\* of its own to database_path, INSERT and commit; any exception closes the
\* connection and leaves process_audio, process_file and main
LiveStore ==
    /\ lpc = "store"
    /\ Cardinality(AllRows) < MaxRows
    /\ \E dbOk \in BOOLEAN :
        IF nlp.t = "dict" /\ Bindable(StoredIntent(nlp)) /\ dbOk
        THEN /\ db' = [db EXCEPT ![database_path] = InsertRow(@, NewRow(basename(cur), nlp))]
             /\ lpc' = "loop"
             /\ UNCHANGED <<listing, cur, nlp>>
        ELSE /\ LiveRaise
             /\ db' = db
    /\ UNCHANGED <<folder, processed, evars, cvars>>

\* line 117: asyncio.sleep(10) after the for loop, then the next tick
LiveSleep ==
    /\ lpc = "loop"
    /\ listing = <<>>
    /\ lpc' = "listdir"
    /\ UNCHANGED <<listing, cur, nlp, svars, evars, cvars>>

\* the program is started again after it ended
LiveRestart ==
    /\ lpc = "raised"
    /\ lpc' = "listdir"
    /\ UNCHANGED <<listing, cur, nlp, svars, evars, cvars>>

LiveFileArrives == FileArrives(LiveFiles) /\ UNCHANGED <<evars, lvars, cvars>>
LiveFileVanishes == FileVanishes /\ UNCHANGED <<evars, lvars, cvars>>

NextLive ==
    \/ LiveListDir \/ LiveNextFile \/ LiveTranscribe
    \/ LiveExtractCall \/ LiveExtractChat \/ LiveExtractParse \/ LiveExtractReturn
    \/ LiveStore \/ LiveSleep \/ LiveRestart
    \/ LiveFileArrives \/ LiveFileVanishes

SpecLive == Init /\ [][NextLive]_vars

IntentLabels ==
    {"SCHEDULE_MAINTENANCE", "REQUEST_SUPPORT", "GENERAL_INQUIRY", "OTHER", "UNKNOWN"}

\* C1: each filename ends with exactly one stored record, and a filename that
\* has a stored record is found by filename_exists_in_db on every later tick,
\* so that it is neither processed nor stored again.
C1_OneRecordPerFilename ==
    \A f \in LiveFiles :
        /\ Cardinality(RowsFor(db[database_path], f)) <= 1
        /\ RowsFor(db[database_path], f) # {} => filename_exists_in_db(f)

\* C6: a per-file failure (file vanished, ASR failure, store failure) is
\* contained in the per-file step: no exception leaves the polling loop.
C6_LoopSurvivesFileFailure == lpc # "raised"

\* C8: every stored record's intent is one of the five labels, whatever the
\* model answers.
C8_StoredIntentInLabelSet ==
    \A d \in DbPaths : \A r \in db[d] : r.intent \in IntentLabels

(***************************************************************************)
(* The folder monitor: AudioProcessor.monitor_folder of                    *)
(* intent_extraction_cont.py, one process per worker, each with one        *)
(* sqlite3 connection to cont_database_path.                               *)
(***************************************************************************)
\* what the connection of process p reads: committed rows and its own open transaction
View(p) == db[cont_database_path] \cup pending[p]

is_file_processed_mut(p, filename) == Cardinality(RowsFor(View(p), filename)) > 1

\* lines 75-83: SELECT COUNT(*) ... WHERE original_filename = ?  > 0
is_file_processed(p, filename) == Cardinality(RowsFor(View(p), filename)) > 0

monitor_handler_mut == "FileNotFoundError"

\* line 224: except Exception as e
monitor_handler == "Exception"

\* a handler that carries on with the move after any exception
ContAfterExceptionResume(exc) == "move"

\* an exception raised inside the try block of lines 214-225
ContAfterException(exc) == IF Catches(monitor_handler, exc) THEN "loop" ELSE "raised"

\* another connection holds the write lock while its transaction is open
LockedByOther(p) == \E q \in Workers \ {p} : pending[q] # {}

ContLocalReset(p) ==
    /\ clisting' = [clisting EXCEPT ![p] = <<>>]
    /\ ccur' = [ccur EXCEPT ![p] = NoPath]
    /\ cnlp' = [cnlp EXCEPT ![p] = None]
    /\ pending' = [pending EXCEPT ![p] = {}]
    /\ transFailed' = [transFailed EXCEPT ![p] = {}]
    /\ storeFailed' = [storeFailed EXCEPT ![p] = {}]

\* lines 234-243: main constructs the processor and enters monitor_folder
ContStart(p) ==
    /\ cpc[p] \in {"down", "raised", "stopped"}
    /\ cpc' = [cpc EXCEPT ![p] = "listdir"]
    /\ ContLocalReset(p)
    /\ UNCHANGED <<crashedAt, svars, evars, lvars>>

\* the process is killed or interrupted; its open transaction is rolled back
ContCrash(p) ==
    /\ cpc[p] \notin {"down", "raised", "stopped"}
    /\ cpc' = [cpc EXCEPT ![p] = "down"]
    /\ crashedAt' = [crashedAt EXCEPT ![p] = cpc[p]]
    /\ ContLocalReset(p)
    /\ UNCHANGED <<svars, evars, lvars>>

\* lines 242-247: KeyboardInterrupt is no Exception, so line 224 does not catch
\* it; it leaves monitor_folder wherever it is, main logs it and the finally
\* clause closes the connection, which drops the open transaction
ContInterrupt(p) ==
    /\ cpc[p] \notin {"down", "raised", "stopped"}
    /\ cpc' = [cpc EXCEPT ![p] = "stopped"]
    /\ ContLocalReset(p)
    /\ UNCHANGED <<crashedAt, svars, evars, lvars>>

\* line 207: os.listdir(self.audio_folder)
ContListDir(p) ==
    /\ cpc[p] = "listdir"
    /\ \E l \in Perms(folder) : clisting' = [clisting EXCEPT ![p] = l]
    /\ cpc' = [cpc EXCEPT ![p] = "loop"]
    /\ UNCHANGED <<ccur, cnlp, pending, crashedAt, transFailed, storeFailed,
                   svars, evars, lvars>>

\* lines 207-213: the next filename, the extension test, _is_file_processed
ContNextFile(p) ==
    /\ cpc[p] = "loop"
    /\ clisting[p] # <<>>
    /\ clisting' = [clisting EXCEPT ![p] = Tail(@)]
    /\ IF HasAudioExtension(Head(clisting[p]))
       THEN /\ ccur' = [ccur EXCEPT ![p] = path_join(audio_folder, Head(clisting[p]))]
            /\ cpc' = [cpc EXCEPT ![p] =
                        IF is_file_processed(p, Head(clisting[p])) THEN "loop" ELSE "transcribe"]
       ELSE UNCHANGED <<ccur, cpc>>
    /\ UNCHANGED <<cnlp, pending, crashedAt, transFailed, storeFailed, svars, evars, lvars>>

\* lines 85-96 called from line 181: FileNotFoundError when the path is gone,
\* or whatever whisper raises
ContTranscribe(p) ==
    /\ cpc[p] = "transcribe"
    /\ \E asrOk \in BOOLEAN :
        IF os_path_exists(ccur[p])
        THEN IF asrOk
             THEN /\ cpc' = [cpc EXCEPT ![p] = "extract"]
                  /\ transFailed' = [transFailed EXCEPT ![p] = @ \ {basename(ccur[p])}]
             ELSE /\ cpc' = [cpc EXCEPT ![p] = ContAfterException("RuntimeError")]
                  /\ transFailed' = [transFailed EXCEPT ![p] = @ \cup {basename(ccur[p])}]
        ELSE /\ cpc' = [cpc EXCEPT ![p] = ContAfterException("FileNotFoundError")]
             /\ transFailed' = [transFailed EXCEPT ![p] = @ \cup {basename(ccur[p])}]
    /\ UNCHANGED <<clisting, ccur, cnlp, pending, crashedAt, storeFailed, svars, evars, lvars>>

\* line 184: extract_intent_and_entities
ContExtract(p) ==
    /\ cpc[p] = "extract"
    /\ \E o \in PipelineOutcomes : cnlp' = [cnlp EXCEPT ![p] = ExtractCont(o)]
    /\ cpc' = [cpc EXCEPT ![p] = "store"]
    /\ UNCHANGED <<clisting, ccur, pending, crashedAt, transFailed, storeFailed,
                   svars, evars, lvars>>

\* lines 151-177 called from line 187.  The INSERT opens a transaction on the
\* connection unless one is open; commit writes the whole transaction.  A
\* commit that raises leaves the transaction open (database is locked) or
\* rolled back by SQLite (disk full, I/O error).
ContStore(p) ==
    /\ cpc[p] = "store"
    /\ LET f == basename(ccur[p])
           row == NewRow(f, cnlp[p])
       IN
       IF cnlp[p].t # "dict"
       THEN \* line 157: nlp_result.get on a list, str or number
            /\ cpc' = [cpc EXCEPT ![p] = ContAfterException("AttributeError")]
            /\ UNCHANGED <<pending, db, storeFailed>>
       ELSE \E outcome \in {"ok", "insert_raises", "commit_raises_open", "commit_raises_rolled_back"} :
            IF outcome = "insert_raises" \/ LockedByOther(p) \/ ~Bindable(StoredIntent(cnlp[p]))
            THEN /\ cpc' = [cpc EXCEPT ![p] = ContAfterException("OperationalError")]
                 /\ storeFailed' = [storeFailed EXCEPT ![p] = @ \cup {f}]
                 /\ UNCHANGED <<pending, db>>
            ELSE IF outcome = "commit_raises_open"
            THEN /\ cpc' = [cpc EXCEPT ![p] = ContAfterException("OperationalError")]
                 /\ storeFailed' = [storeFailed EXCEPT ![p] = @ \cup {f}]
                 /\ pending' = [pending EXCEPT ![p] = InsertRow(@, row)]
                 /\ db' = db
            ELSE IF outcome = "commit_raises_rolled_back"
            THEN /\ cpc' = [cpc EXCEPT ![p] = ContAfterException("OperationalError")]
                 /\ storeFailed' = [storeFailed EXCEPT ![p] = @ \cup {f}]
                 /\ pending' = [pending EXCEPT ![p] = {}]
                 /\ db' = db
            ELSE /\ cpc' = [cpc EXCEPT ![p] = "move"]
                 /\ storeFailed' = [storeFailed EXCEPT ![p] = @ \ {f}]
                 /\ db' = [db EXCEPT ![cont_database_path] = InsertRow(@ \cup pending[p], row)]
                 /\ pending' = [pending EXCEPT ![p] = {}]
    /\ UNCHANGED <<clisting, ccur, cnlp, crashedAt, transFailed, folder, processed,
                   evars, lvars>>

\* lines 219-220: os.rename into the processed folder; it raises
\* FileNotFoundError when the file is gone and another OSError when the
\* processed folder is missing or cannot be written
ContMove(p) ==
    /\ cpc[p] = "move"
    /\ \E renameOk \in BOOLEAN :
        IF os_path_exists(ccur[p]) /\ renameOk
        THEN /\ folder' = folder \ {basename(ccur[p])}
             /\ processed' = processed \cup {basename(ccur[p])}
             /\ cpc' = [cpc EXCEPT ![p] = "loop"]
        ELSE /\ cpc' = [cpc EXCEPT ![p] =
                    ContAfterException(IF os_path_exists(ccur[p])
                                       THEN "OSError" ELSE "FileNotFoundError")]
             /\ UNCHANGED <<folder, processed>>
    /\ UNCHANGED <<clisting, ccur, cnlp, pending, crashedAt, transFailed, storeFailed,
                   db, evars, lvars>>

\* line 228: time.sleep(self.poll_interval) after the for loop
ContSleep(p) ==
    /\ cpc[p] = "loop"
    /\ clisting[p] = <<>>
    /\ cpc' = [cpc EXCEPT ![p] = "listdir"]
    /\ UNCHANGED <<clisting, ccur, cnlp, pending, crashedAt, transFailed, storeFailed,
                   svars, evars, lvars>>

ContFileArrives == FileArrives(Files) /\ UNCHANGED <<evars, lvars, cvars>>
ContFileVanishes == FileVanishes /\ UNCHANGED <<evars, lvars, cvars>>

ContProcess(p) ==
    \/ ContStart(p) \/ ContCrash(p) \/ ContInterrupt(p)
    \/ ContListDir(p) \/ ContNextFile(p)
    \/ ContTranscribe(p) \/ ContExtract(p) \/ ContStore(p) \/ ContMove(p)
    \/ ContSleep(p)

\* a single worker
NextCont == ContProcess(1) \/ ContFileArrives \/ ContFileVanishes

SpecCont == Init /\ [][NextCont]_vars

\* two process instances on the same folder and database
RaceFileArrives == FileArrives(RaceFiles) /\ UNCHANGED <<evars, lvars, cvars>>

NextRace == (\E p \in Workers : ContProcess(p)) \/ RaceFileArrives \/ ContFileVanishes

SpecRace == Init /\ [][NextRace]_vars

\* C5: two processes that both pass the existence check for the same
\* filename and both store leave exactly one row for it; the second insert
\* is rejected and that process does not crash.
C5_RaceLeavesOneRow ==
    /\ \A f \in Files : Cardinality(RowsFor(db[cont_database_path], f)) <= 1
    /\ \A p \in Workers : cpc[p] # "raised"

\* C7: with a single worker, over any ticks, kills and restarts, the table
\* holds at most one record per original_filename.
C7_AtMostOneRecordPerFilename ==
    \A f \in Files : Cardinality(RowsFor(View(1), f)) <= 1

\* the worker was killed between the commit and the move, was started again,
\* and has just passed over the file that is still in the watched folder
C7_Witness ==
    /\ crashedAt[1] = "move"
    /\ cpc[1] = "loop"
    /\ ccur[1] = path_join(audio_folder, "a.wav")
    /\ "a.wav" \in folder
    /\ "a.wav" \notin processed
    /\ Cardinality(RowsFor(db[cont_database_path], "a.wav")) = 1

\* the step of process p in which transcribe_audio raised
TranscribeRaised(p) ==
    cpc[p] = "transcribe" /\ cpc'[p] \notin {"transcribe", "extract", "down", "stopped"}

\* the step of process p that takes a file whose transcription failed from the listing
OfferedAgain(p) ==
    /\ cpc[p] = "loop"
    /\ clisting[p] # <<>>
    /\ Head(clisting[p]) \in transFailed[p]
    /\ clisting'[p] = Tail(clisting[p])
    /\ cpc'[p] \notin {"down", "stopped"}

\* C9: when transcribe_audio fails for a file, no record is created, the file
\* is neither marked nor moved, the rest of the tick's listing is still
\* processed, and the file is taken up again when a later tick lists it.
C9_TranscriptionFailureSkipsFile ==
    /\ [][TranscribeRaised(1) =>
            /\ cpc'[1] = "loop"
            /\ clisting'[1] = clisting[1]
            /\ db' = db /\ pending' = pending
            /\ folder' = folder /\ processed' = processed]_vars
    /\ [][OfferedAgain(1) => cpc'[1] = "transcribe"]_vars
    /\ [](\A f \in transFailed[1] : ~is_file_processed(1, f) /\ f \notin processed)

\* the file whose transcription failed on an earlier tick is being transcribed again
C9_Witness ==
    /\ cpc[1] = "transcribe"
    /\ ccur[1] = path_join(audio_folder, "a.wav")
    /\ "a.wav" \in transFailed[1]
    /\ "a.wav" \in folder
    /\ clisting[1] # <<>>

\* C10: after store_transcription failed on the INSERT or the commit, the loop
\* runs on, no record of the file is left in the store and the next
\* _is_file_processed check for the file returns false.
C10_FailedStoreLeavesNoRecord ==
    /\ cpc[1] # "raised"
    /\ \A f \in storeFailed[1] :
        /\ RowsFor(db[cont_database_path], f) = {}
        /\ ~is_file_processed(1, f)

(***************************************************************************)
(* Records at creation.                                                    *)
(***************************************************************************)
\* the rows of database d that this step created
CreatedRows(d) == {r \in db'[d] : r.id \notin {q.id : q \in db[d]}}

\* C11: every record the pipeline creates has status 'unresolved' and empty
\* resolution_notes, and its original_filename is the bare name of the file
\* that the polling loop listed and tested for existence.
C11_CreatedRecordShape ==
    [][\A d \in DbPaths : \A r \in CreatedRows(d) :
            /\ r.status = "unresolved"
            /\ r.resolution_notes = ""
            /\ r.original_filename \in LiveFiles
            /\ cur = path_join(folder_path, r.original_filename)]_vars

\* a record of notes.txt has just been created
C11_Witness ==
    /\ lpc = "loop"
    /\ cur = path_join(folder_path, "notes.txt")
    /\ \E r \in db[database_path] :
        r.original_filename = "notes.txt" /\ r.status = "unresolved"

(***************************************************************************)
(* The live path next to the resolution workflow, the external actor that  *)
(* moves a record's status forward and writes its resolution notes.        *)
(***************************************************************************)
Rank(status) ==
    CASE status = "unresolved" -> 0
      [] status = "in_progress" -> 1
      [] status = "resolved" -> 2

NextStatus(status) == IF status = "unresolved" THEN "in_progress" ELSE "resolved"

WorkflowAdvance ==
    /\ \E r \in db[database_path] :
        /\ r.status # "resolved"
        /\ db' = [db EXCEPT ![database_path] =
                    (@ \ {r}) \cup {[r EXCEPT !.status = NextStatus(r.status),
                                              !.resolution_notes = "seen"]}]
    /\ UNCHANGED <<folder, processed, evars, lvars, cvars>>

WorkflowFileArrives == FileArrives(RaceFiles) /\ UNCHANGED <<evars, lvars, cvars>>

NextWorkflow ==
    \/ LiveListDir \/ LiveNextFile \/ LiveTranscribe
    \/ LiveExtractCall \/ LiveExtractChat \/ LiveExtractParse \/ LiveExtractReturn
    \/ LiveStore \/ LiveSleep \/ LiveRestart
    \/ WorkflowFileArrives \/ LiveFileVanishes
    \/ WorkflowAdvance

SpecWorkflow == Init /\ [][NextWorkflow]_vars

\* C12: over any pipeline operations the status of an existing record never
\* moves backward in unresolved < in_progress < resolved, and a step of the
\* pipeline leaves every existing record as it is.
C12_StatusNeverRegresses ==
    [][\A d \in DbPaths : \A r \in db[d] :
            \E q \in db'[d] :
                /\ q.id = r.id
                /\ Rank(q.status) >= Rank(r.status)
                /\ (lvars' # lvars => q = r)]_vars

\* the pipeline has stored the file again while its earlier record is resolved
C12_Witness ==
    \E r \in db[database_path], q \in db[database_path] :
        /\ r.status = "resolved"
        /\ q.id > r.id
        /\ q.original_filename = r.original_filename
        /\ q.status = "unresolved"

(***************************************************************************)
(* The extractor when every step that can be taken is taken: Python runs   *)
(* the method to its end and each ollama.chat call returns or raises.      *)
(***************************************************************************)
\* the outcomes that keep the loop going, and one that ends it
RetryOutcomes ==
    {Raises, Says(TextProse), Says(TextOpenOnly),
     Says(Wrap(<<LB, W("note"), RB>>, ObjSupport, <<>>)), Says(ObjSupport)}

FairChat == ExtChat(RetryOutcomes) /\ UNCHANGED <<svars, lvars, cvars>>

NextExtractFair ==
    AloneCall \/ FairChat \/ AloneParseDirect \/ AloneParseRepaired \/ AloneRetry

SpecExtractFair == Init /\ [][NextExtractFair]_vars /\ WF_vars(NextExtractFair)

\* C13: every call of extract_intent_and_entities ends in one of the two
\* terminal outcomes, a parsed value or the fallback; it never retries forever.
C13_ExtractorTerminates == (epc # "idle") ~> (epc = "returned")

\* the call ended with the fallback after the last attempt
C13_Witness ==
    /\ epc = "returned"
    /\ attempt = max_attempts - 1
    /\ Len(calls) = max_attempts
    /\ result = Fallback
    /\ \A k \in 1..Len(calls) : calls[k] = Says(TextOpenOnly)

\* the step in which a shutdown request ends monitor_folder of process p
ShutdownStep(p) == cpc[p] # "stopped" /\ cpc'[p] = "stopped"

\* C14: a shutdown request that arrives while a file is being processed lets
\* the file finish: it is not abandoned between transcription and the record
\* commit, and the store holds no partly written record.
C14_ShutdownLetsFileFinish ==
    [][ShutdownStep(1) => cpc[1] \notin {"extract", "store"} /\ db' = db]_vars

\* main is between the existence check of a file and the end of its process_file
InFlight == lpc \in {"transcribe", "extract", "store"}

\* C15: at most one file is in flight: while a file is being transcribed,
\* extracted or stored, no other file is taken from the listing and no new
\* listing is made, and the extractor runs only for the file in flight.
C15_OneFileInFlight ==
    /\ [](epc # "idle" => lpc = "extract")
    /\ [][(InFlight /\ lpc' # "raised") => (listing' = listing /\ cur' = cur)]_vars
    /\ [][listing' # listing => (lpc \in {"listdir", "loop"} \/ lpc' = "raised")]_vars

\* a file is being stored while another candidate of the same tick waits
C15_Witness ==
    /\ lpc = "store"
    /\ cur = path_join(folder_path, "a.wav")
    /\ listing = <<"notes.txt">>

\* what an attempt that does not fail hands back: the direct parse, else the repaired one
AttemptValue(o) ==
    IF json_loads(o.content).ok
    THEN json_loads(o.content).v
    ELSE json_loads(CleanedContent(o.content)).v

\* C16: one call of the extractor invokes the model at most 3 times, and
\* after the first attempt whose response parses, directly or after repair,
\* that value is returned with no further model call.
C16_AtMostThreeCalls ==
    /\ Len(calls) <= 3
    /\ \A k \in 1..Len(calls) : k < Len(calls) => AttemptFails(calls[k])
    /\ (Len(calls) > 0 /\ ~AttemptFails(calls[Len(calls)]) /\ epc \notin {"SENT", "PARSE_DIRECT", "PARSE_REPAIRED"})
        => epc = "returned" /\ result = AttemptValue(calls[Len(calls)])

C16_Witness ==
    /\ epc = "returned"
    /\ Len(calls) = 2
    /\ calls[1] = Says(TextProse)
    /\ calls[2] = Says(ObjFreeIntent)
    /\ DictGet(result, "intent", None) = JStr("COMPLAINT")

\* C17: a model call that raises on attempt k < 3 is one failed attempt and
\* is followed by attempt k+1; when attempt k+1 gives a parseable object,
\* that object is returned, not the fallback and not an exception.
C17_RaiseIsFailedAttempt ==
    /\ ~eraised
    /\ epc = "returned" =>
        \A k \in 1..Len(calls) :
            (calls[k].raises /\ k < 3) =>
                /\ Len(calls) >= k + 1
                /\ (~AttemptFails(calls[k + 1]) /\ AttemptValue(calls[k + 1]).t = "dict")
                    => /\ Len(calls) = k + 1
                       /\ result = AttemptValue(calls[k + 1])

C17_Witness ==
    /\ epc = "returned"
    /\ calls = <<Raises, Raises, Says(Wrap(<<W("Sure")>>, ObjSupport, <<>>))>>
    /\ result = JObj(<<Member("intent", JStr("REQUEST_SUPPORT")),
                       Member("entities", JArr(<<>>))>>)

AllAttemptsFailed == \A k \in 1..Len(calls) : AttemptFails(calls[k])

\* C18: the extractor moves as SENT -> PARSE_DIRECT -> PARSE_REPAIRED -> RETRY:
\* the repair parse is entered only from a failed direct parse of the same
\* response, a retry only after the call raised or both parses of the attempt
\* failed, and the fallback is returned only after exactly 3 failed attempts.
C18_StateMachine ==
    [][/\ (epc' = "PARSE_DIRECT" /\ epc # "PARSE_DIRECT") =>
            /\ epc = "SENT"
            /\ raw' = calls'[Len(calls')].content
       /\ (epc' = "PARSE_REPAIRED" /\ epc # "PARSE_REPAIRED") =>
            /\ epc = "PARSE_DIRECT"
            /\ ~json_loads(raw).ok
            /\ raw' = raw /\ calls' = calls
       /\ (epc' = "RETRY" /\ epc # "RETRY") =>
            \/ /\ epc = "SENT"
               /\ calls'[Len(calls')].raises
               /\ AllAttemptsFailed
            \/ /\ epc = "PARSE_REPAIRED"
               /\ calls' = calls
               /\ ~json_loads(calls[Len(calls)].content).ok
               /\ ~json_loads(raw').ok
               /\ AllAttemptsFailed
       /\ (epc' = "SENT" /\ epc # "SENT") =>
            \/ epc = "idle"
            \/ /\ epc = "RETRY"
               /\ Len(calls) < 3
               /\ attempt' = Len(calls)
       /\ (epc' = "returned" /\ epc # "returned") =>
            \/ /\ epc \in {"PARSE_DIRECT", "PARSE_REPAIRED"}
               /\ json_loads(raw').ok
               /\ result' = json_loads(raw').v
            \/ /\ epc = "RETRY"
               /\ Len(calls) = 3
               /\ AllAttemptsFailed
               /\ result' = Fallback
      ]_vars

C18_Witness ==
    /\ epc = "returned"
    /\ attempt = 2
    /\ calls = <<Says(Wrap(<<LB, W("note"), RB>>, ObjNested, <<>>)), Raises, Says(TextProse)>>
    /\ raw = TextProse
    /\ result = Fallback

\* the pairs (i, j) with s[i] the first "{" of s and s[j] the last "}" of s behind it
BraceSpans(s) ==
    {ij \in (1..Len(s)) \X (1..Len(s)) :
        /\ ij[1] < ij[2]
        /\ s[ij[1]] = LB /\ s[ij[2]] = RB
        /\ \A k \in 1..Len(s) : (s[k] = LB => k >= ij[1]) /\ (s[k] = RB => k <= ij[2])}

\* C19: after a failed direct parse the text parsed next runs from the first
\* "{" to the last "}" of the response, so a nested object inside brace-free
\* prose is returned whole; with no "{"..."}" pair the attempt fails.
C19_RepairTakesMaximalSpan ==
    /\ [][(epc = "PARSE_REPAIRED" /\ epc' # "PARSE_REPAIRED") =>
            IF BraceSpans(raw) # {}
            THEN \E ij \in BraceSpans(raw) :
                    /\ raw' = SubSeq(raw, ij[1], ij[2])
                    /\ IF json_loads(raw').ok
                       THEN epc' = "returned" /\ result' = json_loads(raw').v
                       ELSE epc' = "RETRY"
            ELSE epc' = "RETRY" /\ raw' = raw /\ result' = result]_vars
    /\ [](\A pre \in NoisePre, post \in NoisePost :
            (/\ epc = "returned"
             /\ calls # <<>>
             /\ calls[Len(calls)] = Says(Wrap(pre, ObjNested, post))
             /\ BraceFree(pre) /\ BraceFree(post)
             /\ ~json_loads(Wrap(pre, ObjNested, post)).ok)
            => raw = ObjNested /\ result = json_loads(ObjNested).v)
    /\ [](\A o \in {calls[k] : k \in 1..Len(calls)} :
            (~o.raises /\ ~json_loads(o.content).ok) =>
                ExtractCont(o) =
                    IF BraceSpans(o.content) # {} /\ \E ij \in BraceSpans(o.content) :
                            json_loads(SubSeq(o.content, ij[1], ij[2])).ok
                    THEN json_loads(SubSeq(o.content,
                             (CHOOSE ij \in BraceSpans(o.content) : TRUE)[1],
                             (CHOOSE ij \in BraceSpans(o.content) : TRUE)[2])).v
                    ELSE Fallback)

C19_Witness ==
    /\ epc = "returned"
    /\ calls = <<Says(Wrap(<<W("Sure")>>, ObjNested, <<W("thanks")>>))>>
    /\ raw = ObjNested
    /\ result = json_loads(ObjNested).v

\* C20: after a successful transcription the extractor cannot make the
\* per-file step fail: it raises nothing, and the value it hands to
\* store_transcription is one the INSERT accepts, so the record is stored.
C20_ExtractorNeverFailsFile ==
    /\ ~eraised
    /\ lpc = "store" => (nlp.t = "dict" /\ Bindable(StoredIntent(nlp)))

(***************************************************************************)
(* The folder monitor under fair scheduling: the process is never killed,  *)
(* files stay where they were dropped, whisper and SQLite do not fail;     *)
(* only the model's answers are free.                                      *)
(***************************************************************************)
\* transcribe_audio returns
FairTranscribe == ContTranscribe(1) /\ cpc'[1] = "extract"

\* the INSERT and the commit go through whenever the values can be bound
FairStore ==
    /\ ContStore(1)
    /\ (cnlp[1].t = "dict" /\ Bindable(StoredIntent(cnlp[1]))) => cpc'[1] = "move"

FairWorker ==
    \/ ContListDir(1) \/ ContNextFile(1) \/ FairTranscribe \/ ContExtract(1)
    \/ FairStore \/ ContMove(1) \/ ContSleep(1)

NextContFair == FairWorker \/ ContFileArrives

SpecContFair == Init /\ [][NextContFair]_vars /\ WF_vars(FairWorker)

\* C21: every allow-listed file that is in the watched folder, stays there
\* and is transcribed eventually has exactly one record, whatever the model
\* answers.
C21_EveryFileGetsOneRecord ==
    \A f \in Files :
        (HasAudioExtension(f) /\ f \in folder)
            ~> (Cardinality(RowsFor(db[cont_database_path], f)) = 1)

(***************************************************************************)
(* extract_intent_and_entities of intent_extraction_cont.py on its own,    *)
(* step by step; the value it returns is ExtractCont of the one answer.    *)
(***************************************************************************)
\* line 123: entry into the try block
ContExtCall == ExtCall /\ UNCHANGED <<svars, lvars, cvars>>

\* lines 124-129: ollama.chat; an exception lands in line 147 and the default is returned
ContExtChat ==
    /\ epc = "SENT"
    /\ \E o \in Outcomes :
        /\ calls' = Append(calls, o)
        /\ IF o.raises
           THEN epc' = "returned" /\ raw' = raw /\ result' = ExtractCont(o)
           ELSE epc' = "PARSE_DIRECT" /\ raw' = o.content /\ result' = result
    /\ UNCHANGED <<attempt, eraised, svars, lvars, cvars>>

\* lines 132-135: json.loads(raw_content), returned as it is
ContExtParseDirect ==
    /\ epc = "PARSE_DIRECT"
    /\ IF json_loads(raw).ok
       THEN epc' = "returned" /\ result' = ExtractCont(calls[Len(calls)])
       ELSE epc' = "PARSE_REPAIRED" /\ result' = result
    /\ UNCHANGED <<attempt, raw, calls, eraised, svars, lvars, cvars>>

\* lines 136-149: the regex, the second json.loads, or the default
ContExtParseRepaired ==
    /\ epc = "PARSE_REPAIRED"
    /\ raw' = CleanedContent(raw)
    /\ epc' = "returned"
    /\ result' = ExtractCont(calls[Len(calls)])
    /\ UNCHANGED <<attempt, calls, eraised, svars, lvars, cvars>>

NextExtractCont ==
    ContExtCall \/ ContExtChat \/ ContExtParseDirect \/ ContExtParseRepaired

SpecExtractCont == Init /\ [][NextExtractCont]_vars

\* C22: in the folder-monitor extractor a failed call or an unparseable
\* answer is followed by further attempts, up to 3, and the fallback is
\* returned only after 3 failed attempts; the call never raises.
C22_ContExtractorRetries ==
    /\ ~eraised
    /\ Len(calls) <= 3
    /\ (epc = "returned" /\ result = Fallback) =>
            (Len(calls) = 3 /\ AllAttemptsFailed)

(***************************************************************************)
(* Threads of the live path.                                               *)
(***************************************************************************)
\* whisper's transcribe and ollama.chat are synchronous calls that return
\* only when the work is done (intent_extraction.py lines 128-144, 185-194)
blocking_call(pos) == pos \in {"transcribe", "extract"}

\* the thread a position of main runs on.  process_file awaits the coroutine
\* process_audio directly (files_processer.py line 19; the run_in_executor
\* call of line 18 is commented out), and process_audio calls transcribe_audio
\* and extract_intent_and_entities as plain functions (lines 278 and 281), so
\* they run on the thread of the event loop; the aiosqlite statements of the
\* store are awaited and run on the connection's thread
running_thread(pos) ==
    IF pos = "store" THEN "aiosqlite" ELSE "event_loop"

\* C23: the blocking transcription and model-chat calls of a file run on the
\* single-slot executor, never on the thread of the event loop that drives
\* the polling ticks.
C23_BlockingCallsOffScheduler ==
    blocking_call(lpc) => running_thread(lpc) = "executor"

\* C24: within a tick the candidates are taken in the order of the listing,
\* the listing is taken once, when the tick starts, and a file that is added
\* afterwards changes nothing in the running tick; the next tick's listing
\* holds every file of the folder.
C24_ListingOrderWithinTick ==
    [][/\ (listing' # listing /\ lpc' # "raised") =>
            \/ /\ lpc = "listdir"
               /\ Len(listing') = Cardinality(folder)
               /\ {listing'[i] : i \in 1..Len(listing')} = folder
            \/ /\ lpc = "loop"
               /\ listing # <<>>
               /\ listing' = Tail(listing)
               /\ cur' = path_join(folder_path, Head(listing))
       /\ (lpc' = "transcribe" /\ lpc # "transcribe") =>
            /\ lpc = "loop"
            /\ listing # <<>>
            /\ listing' = Tail(listing)
            /\ cur' = path_join(folder_path, Head(listing))
       /\ folder' # folder => (listing' = listing /\ cur' = cur /\ lpc' = lpc)
       /\ \A p \in Workers :
            /\ (clisting'[p] # clisting[p] /\ cpc'[p] \notin {"down", "stopped", "listdir"}) =>
                \/ /\ cpc[p] = "listdir"
                   /\ Len(clisting'[p]) = Cardinality(folder)
                   /\ {clisting'[p][i] : i \in 1..Len(clisting'[p])} = folder
                \/ /\ cpc[p] = "loop"
                   /\ clisting[p] # <<>>
                   /\ clisting'[p] = Tail(clisting[p])
            /\ (cpc'[p] = "transcribe" /\ cpc[p] # "transcribe") =>
                /\ cpc[p] = "loop"
                /\ clisting[p] # <<>>
                /\ clisting'[p] = Tail(clisting[p])
                /\ ccur'[p] = path_join(audio_folder, Head(clisting[p]))
            /\ folder' # folder =>
                (clisting'[p] = clisting[p] \/ cpc[p] \in {"move", "down", "raised", "stopped"}
                    \/ cpc'[p] \in {"down", "stopped"})
      ]_vars

\* a.wav was listed alone, notes.txt was dropped during the tick: the tick
\* ended with a record of a.wav and none of notes.txt
C24_Witness ==
    /\ lpc = "loop"
    /\ listing = <<>>
    /\ cur = path_join(folder_path, "a.wav")
    /\ folder = {"a.wav", "notes.txt"}
    /\ RowsFor(db[database_path], "a.wav") # {}
    /\ RowsFor(db[database_path], "notes.txt") = {}

(***************************************************************************)
(* store_transcription on its own: one call on an empty table, with any    *)
(* file and any list of entities in nlp_result.                            *)
(***************************************************************************)
MaxEntities == 2

EntityTexts == {"pump", "O'Brien", "6\" pipe", "it's 6\"", "C:\\tmp"}

EntityOf(t) == JObj(<<Member("text", JStr(t)), Member("label", JStr("ASSET"))>>)

EntityLists ==
    UNION {[1..n -> {EntityOf(t) : t \in EntityTexts}] : n \in 0..MaxEntities}

StoreInputs ==
    {JObj(<<Member("intent", JStr("OTHER")), Member("entities", JArr(es))>>) :
        es \in EntityLists}

\* lines 284-288: process_audio calls store_transcription with the basename
\* of the file and the value the extractor returned
AloneStoreCall ==
    /\ lpc = "listdir"
    /\ AllRows = {}
    /\ \E f \in LiveFiles, n \in StoreInputs :
        /\ cur' = path_join(folder_path, f)
        /\ nlp' = n
    /\ lpc' = "store"
    /\ UNCHANGED <<listing, svars, evars, cvars>>

NextStore == AloneStoreCall \/ LiveStore

SpecStore == Init /\ [][NextStore]_vars

\* the token a unit outside a string stands for
UnitToken(x) ==
    CASE x = "[" -> LS
      [] x = "]" -> RS
      [] x = "{" -> LB
      [] x = "}" -> RB
      [] x = ": " -> COLON
      [] x = ", " -> COMMA
      [] OTHER -> W(x)

\* the string whose characters are c
Unchars(c) ==
    IF c = <<>> THEN ""
    ELSE IF Len(c) = 1 /\ c[1] \notin {SQ, DQ, BS} THEN c[1]
    ELSE IF \E t \in EntityTexts : Chars(t) = c
         THEN CHOOSE t \in EntityTexts : Chars(t) = c
         ELSE "?"

LexFail == [ok |-> FALSE, toks |-> <<>>]

RECURSIVE LexUnits(_, _, _)
RECURSIVE LexString(_, _, _, _)

\* the inside of a JSON string that began before position j: it ends at the
\* next double quote that no backslash escapes
LexString(u, j, str, acc) ==
    IF j > Len(u) THEN LexFail
    ELSE IF u[j] = DQ THEN LexUnits(u, j + 1, Append(acc, S(Unchars(str))))
    ELSE IF u[j] = BS
         THEN IF j + 1 <= Len(u) /\ u[j + 1] \in {DQ, BS}
              THEN LexString(u, j + 2, Append(str, u[j + 1]), acc)
              ELSE LexFail
    ELSE LexString(u, j + 1, Append(str, u[j]), acc)

LexUnits(u, i, acc) ==
    IF i > Len(u) THEN [ok |-> TRUE, toks |-> acc]
    ELSE IF u[i] = DQ THEN LexString(u, i + 1, <<>>, acc)
    ELSE LexUnits(u, i + 1, Append(acc, UnitToken(u[i])))

\* json.loads of a text given as units
json_decode(u) ==
    LET l == LexUnits(u, 1, <<>>) IN
    IF l.ok THEN json_loads(l.toks) ELSE Fail

\* C25: the stored entities column is a JSON array: decoding it gives back
\* the sequence of {text, label} objects that was stored, in the same order,
\* also when a text holds an apostrophe or a double quote.
C25_EntitiesColumnDecodes ==
    lpc = "loop" =>
        \A r \in db[database_path] :
            /\ json_decode(r.entities).ok
            /\ json_decode(r.entities).v = DictGet(nlp, "entities", JArr(<<>>))

\* the step of process p in which os.rename raised
MoveFailed(p) ==
    cpc[p] = "move" /\ cpc'[p] = "loop" /\ folder' = folder /\ processed' = processed

\* the step of process p that takes from the listing a file with a committed record
OffersRecorded(p) ==
    /\ cpc[p] = "loop"
    /\ clisting[p] # <<>>
    /\ RowsFor(db[cont_database_path], Head(clisting[p])) # {}
    /\ clisting'[p] = Tail(clisting[p])

\* C26: a file is moved to the processed folder only after its record was
\* committed, so every file in the processed folder has a record; when the
\* move fails the record stays and later ticks skip the file.
C26_MovedFilesHaveRecords ==
    /\ [](\A f \in processed : RowsFor(db[cont_database_path], f) # {})
    /\ [](\A p \in Workers : cpc[p] = "move" =>
                RowsFor(db[cont_database_path], basename(ccur[p])) # {})
    /\ [][\A f \in processed' \ processed :
            /\ RowsFor(db[cont_database_path], f) # {}
            /\ db' = db]_vars
    /\ [][MoveFailed(1) =>
            /\ db' = db
            /\ pending' = pending
            /\ RowsFor(db[cont_database_path], basename(ccur[1])) # {}]_vars
    /\ [][OffersRecorded(1) => cpc'[1] \in {"loop", "down", "stopped"}]_vars

\* os.rename failed for a.wav: the file is still in the watched folder, its
\* record is committed, and the worker, never killed, is past the file
C26_Witness ==
    /\ cpc[1] = "loop"
    /\ crashedAt[1] = "none"
    /\ ccur[1] = path_join(audio_folder, "a.wav")
    /\ clisting[1] = <<>>
    /\ folder = {"a.wav"}
    /\ processed = {}
    /\ Cardinality(RowsFor(db[cont_database_path], "a.wav")) = 1

====
